---------------------------- MODULE Spec2Model ----------------------------
(***************************************************************************)
(* SMS4JawalyClient.send_sms (src/4jawaly_sms/client.py): the recipient    *)
(* list is cut into chunks, every chunk is POSTed by a worker of a         *)
(* ThreadPoolExecutor, the per-chunk results are collected positionally    *)
(* and folded into one aggregate dictionary.                               *)
(*                                                                         *)
(* Python dictionaries are records: a key is present iff it is in the      *)
(* DOMAIN of the record, so result["response"] on a dictionary without     *)
(* that key is the KeyError the interpreter raises.  The empty dictionary  *)
(* {} is the function with empty domain, <<>>.                             *)
(***************************************************************************)
EXTENDS Integers, Sequences, FiniteSets, TLC

VARIABLES
    numbers,      \* the recipient list handed to send_sms
    pc,           \* position of the calling thread inside send_sms
    chunk_size,   \* the chunk size chosen at lines 82-87
    ci,           \* the value i of range(0, len(numbers), chunk_size)
    chunks,       \* the list built by _chunk_numbers
    status,       \* per chunk: state of its task in the executor
    posts,        \* per chunk: how many times requests.post was called
    outcome,      \* per chunk: what requests.post did (raise / response)
    future,       \* per chunk: the dictionary _send_chunk returned
    completion,   \* chunk indices in the order their tasks finished
    results,      \* list(executor.map(...)) as far as it is built
    ri,           \* number of results the aggregation loop has consumed
    aggregated,   \* the aggregate dictionary (NoDict before line 100)
    exc           \* the exception send_sms raised ("" when none)

vars == <<numbers, pc, chunk_size, ci, chunks, status, posts, outcome,
          future, completion, results, ri, aggregated, exc>>

-----------------------------------------------------------------------------
(* Bounds of the model. *)

\* longest recipient list of the full send_sms model
MaxLen == 6

\* longest recipient list of the chunking-only model
MaxN == 250

\* recipient lists of the chunking-only model repeat with period 1..MaxPeriod
\* (and once hold pairwise distinct numbers)
MaxPeriod == 2

-----------------------------------------------------------------------------
(* Program constants. *)

\* len(numbers) <= 5: a single chunk
SmallLimit == 5

\* len(numbers) <= 100: five-way split; above: chunks of 100
LargeLimit == 100

\* number of parts of the five-way split
Parts == 5

\* fixed chunk size above LargeLimit
FixedChunk == 100

\* the only status _send_chunk treats as success
StatusOK == 200

\* statuses other than 200 the gateway answers with
ErrStatuses == {500}

-----------------------------------------------------------------------------
(* Helpers. *)

Min(a, b) == IF a <= b THEN a ELSE b

EmptyDict == <<>>

NoDict == [none |-> TRUE]

\* dict.get(key, default)
Get(d, key, default) == IF key \in DOMAIN d THEN d[key] ELSE default

\* Python truthiness of a string
Truthy(s) == s # ""

\* a recipient list of length n: pairwise distinct numbers (p = 0) or a
\* list that repeats with period p
PhoneBook(n, p) == [i \in 1..n |-> IF p = 0 THEN i ELSE i % p]

-----------------------------------------------------------------------------
(* Lines 81-90: chunk size and chunking. *)

\* a floor where the code takes the ceiling
ChunkSizeFloor(n) ==
    IF n <= SmallLimit THEN n
    ELSE IF n <= LargeLimit THEN n \div Parts
    ELSE FixedChunk

\* "<" where the code has "<=" at the upper threshold
ChunkSizeStrict(n) ==
    IF n <= SmallLimit THEN n
    ELSE IF n < LargeLimit THEN n \div Parts + (IF n % Parts # 0 THEN 1 ELSE 0)
    ELSE FixedChunk

ChunkSize(n) ==
    IF n <= SmallLimit THEN n
    ELSE IF n <= LargeLimit THEN n \div Parts + (IF n % Parts # 0 THEN 1 ELSE 0)
    ELSE FixedChunk

\* a slice that runs one element into the next chunk
SliceOverlap(s, lo, hi) == SubSeq(s, lo + 1, Min(hi + 1, Len(s)))

\* s[lo:hi] for 0 <= lo <= hi: the end is clamped to len(s)
Slice(s, lo, hi) == SubSeq(s, lo + 1, Min(hi, Len(s)))

ChooseChunkSize ==
    /\ pc = "start"
    /\ chunk_size' = ChunkSize(Len(numbers))
    /\ pc' = "chunk"
    /\ UNCHANGED <<numbers, ci, chunks, status, posts, outcome, future,
                   completion, results, ri, aggregated, exc>>

\* range(0, len(numbers), 0) raises ValueError: the step must not be zero
ChunkRaise ==
    /\ pc = "chunk"
    /\ chunk_size = 0
    /\ pc' = "raised"
    /\ exc' = "ValueError"
    /\ UNCHANGED <<numbers, chunk_size, ci, chunks, status, posts, outcome,
                   future, completion, results, ri, aggregated>>

\* one iteration of the list comprehension of _chunk_numbers
ChunkStep ==
    /\ pc = "chunk"
    /\ chunk_size > 0
    /\ ci < Len(numbers)
    /\ chunks' = Append(chunks, Slice(numbers, ci, ci + chunk_size))
    /\ ci' = ci + chunk_size
    /\ UNCHANGED <<numbers, pc, chunk_size, status, posts, outcome, future,
                   completion, results, ri, aggregated, exc>>

\* the range is exhausted: _chunk_numbers returns, the executor is entered
ChunkDone ==
    /\ pc = "chunk"
    /\ chunk_size > 0
    /\ ci >= Len(numbers)
    /\ pc' = "submit"
    /\ status' = [k \in 1..Len(chunks) |-> "new"]
    /\ posts' = [k \in 1..Len(chunks) |-> 0]
    /\ outcome' = [k \in 1..Len(chunks) |-> NoDict]
    /\ future' = [k \in 1..Len(chunks) |-> NoDict]
    /\ UNCHANGED <<numbers, chunk_size, ci, chunks, completion, results, ri,
                   aggregated, exc>>

-----------------------------------------------------------------------------
(* Lines 31-65: _send_chunk.  What requests.post does is the environment's *)
(* choice: it raises, or it returns a response with a status and a body.   *)

\* f"HTTP Error: {response.status_code}"
HttpErrorText(st) == "HTTP Error: " \o ToString(st)

\* bodies the gateway answers with status 200 to the POST of chunk k
OkBodies(k, chunk) ==
    { [job_id |-> k, messages |-> <<[inserted_numbers |-> Len(chunk)]>>],
      [messages |-> <<[inserted_numbers |-> Len(chunk)]>>],
      [job_id |-> k],
      [messages |-> <<>>],
      [messages |-> <<[err_text |-> "invalid number"]>>],
      [messages |-> <<[err_text |-> ""]>>] }

\* bodies the gateway answers with a status other than 200
ErrBodies == { [message |-> "Unauthorized"], EmptyDict }

\* everything requests.post can do for chunk k
Outcomes(k, chunk) ==
    { [kind |-> "raise", desc |-> "Connection refused"] }
        \cup { [kind |-> "response", status |-> StatusOK, body |-> b] :
                   b \in OkBodies(k, chunk) }
        \cup { [kind |-> "response", status |-> st, body |-> b] :
                   st \in ErrStatuses, b \in ErrBodies }

\* the dictionary _send_chunk returns; the except clause catches what
\* requests.post raises
SendChunkResult(chunk, o) ==
    IF o.kind = "raise"
    THEN [success |-> FALSE, chunk |-> chunk, error |-> o.desc]
    ELSE IF o.status = StatusOK
    THEN [success |-> TRUE, chunk |-> chunk, response |-> o.body]
    ELSE [success |-> FALSE, chunk |-> chunk,
          error |-> Get(o.body, "message", HttpErrorText(o.status))]

-----------------------------------------------------------------------------
(* Lines 92-97: list(executor.map(...)) inside the with block.             *)
(* Executor.map submits every chunk before it hands out the first result   *)
(* and yields the results in submission order, blocking on each future.    *)
(* ThreadPoolExecutor() has min(32, cpu_count + 4) >= 5 workers, so for up *)
(* to 100 recipients (at most 5 chunks) every queued task may start.       *)

Submitted == Cardinality({k \in DOMAIN status : status[k] # "new"})

\* executor.map: submit the next chunk; after the last one the caller goes
\* on to take the results
Submit ==
    /\ pc = "submit"
    /\ LET k == Submitted + 1
       IN  /\ status' = [status EXCEPT ![k] = "queued"]
           /\ pc' = IF k = Len(chunks) THEN "collect" ELSE "submit"
    /\ UNCHANGED <<numbers, chunk_size, ci, chunks, posts, outcome, future,
                   completion, results, ri, aggregated, exc>>

\* a worker takes the task of chunk k and calls requests.post
StartPost(k) ==
    /\ status[k] = "queued"
    /\ status' = [status EXCEPT ![k] = "inflight"]
    /\ posts' = [posts EXCEPT ![k] = @ + 1]
    /\ UNCHANGED <<numbers, pc, chunk_size, ci, chunks, outcome, future,
                   completion, results, ri, aggregated, exc>>

\* a failed POST puts the task back into the queue
CompletePostRetry(k, o) ==
    /\ status[k] = "inflight"
    /\ outcome' = [outcome EXCEPT ![k] = o]
    /\ IF o.kind = "raise" /\ posts[k] < 2
       THEN /\ status' = [status EXCEPT ![k] = "queued"]
            /\ UNCHANGED <<future, completion>>
       ELSE /\ status' = [status EXCEPT ![k] = "done"]
            /\ future' = [future EXCEPT ![k] = SendChunkResult(chunks[k], o)]
            /\ completion' = Append(completion, k)
    /\ UNCHANGED <<numbers, pc, chunk_size, ci, chunks, posts, results, ri,
                   aggregated, exc>>

\* requests.post of chunk k ends with outcome o; _send_chunk returns and the
\* future of chunk k is done
CompletePost(k, o) ==
    /\ status[k] = "inflight"
    /\ outcome' = [outcome EXCEPT ![k] = o]
    /\ status' = [status EXCEPT ![k] = "done"]
    /\ future' = [future EXCEPT ![k] = SendChunkResult(chunks[k], o)]
    /\ completion' = Append(completion, k)
    /\ UNCHANGED <<numbers, pc, chunk_size, ci, chunks, posts, results, ri,
                   aggregated, exc>>

\* results are taken in the order the futures finish
CollectResultAsCompleted ==
    /\ pc = "collect"
    /\ Len(results) < Len(completion)
    /\ results' = Append(results, future[completion[Len(results) + 1]])
    /\ UNCHANGED <<numbers, pc, chunk_size, ci, chunks, status, posts,
                   outcome, future, completion, ri, aggregated, exc>>

\* list(...) takes the next result of the map iterator: the result of the
\* next chunk in submission order, once its future is done
CollectResult ==
    /\ pc = "collect"
    /\ Len(results) < Len(chunks)
    /\ status[Len(results) + 1] = "done"
    /\ results' = Append(results, future[Len(results) + 1])
    /\ UNCHANGED <<numbers, pc, chunk_size, ci, chunks, status, posts,
                   outcome, future, completion, ri, aggregated, exc>>

\* the with block is left without waiting for the results
JoinedNoWait == TRUE

\* every result has been taken and the executor has shut down (wait=True)
Joined ==
    /\ Len(results) = Len(chunks)
    /\ \A k \in DOMAIN status : status[k] = "done"

\* lines 99-106: the with block is left and the aggregate is initialised
ExitExecutor ==
    /\ pc = "collect"
    /\ Joined
    /\ pc' = "aggregate"
    /\ aggregated' = [success |-> TRUE, total_success |-> 0,
                      total_failed |-> 0, job_ids |-> <<>>,
                      errors |-> EmptyDict]
    /\ UNCHANGED <<numbers, chunk_size, ci, chunks, status, posts, outcome,
                   future, completion, results, ri, exc>>

-----------------------------------------------------------------------------
(* Lines 108-124: the aggregation loop, one action per iteration.          *)

\* result["response"].get("messages", [{}])
Messages(r) == Get(r.response, "messages", <<EmptyDict>>)

\* line 109 evaluates [0] on the messages list of a successful result
IndexErrorAt109(r) == r.success /\ Len(Messages(r)) = 0

\* the condition of line 109
IsAccepted(r) == r.success /\ "err_text" \notin DOMAIN Messages(r)[1]

\* lines 115-118; dict.get gives None, which is falsy like ""
ErrorMsg(r) ==
    LET et == Get(Messages(r)[1], "err_text", "")
    IN  IF Truthy(et) THEN et ELSE Get(r, "error", "Unknown error")

\* lines 119-121
ExtendErrors(errors, msg, chunk) ==
    IF msg \in DOMAIN errors
    THEN [errors EXCEPT ![msg] = @ \o chunk]
    ELSE (msg :> chunk) @@ errors

Current == results[ri + 1]

\* line 109 raises IndexError: the body's messages list is empty
AggregateIndexError ==
    /\ pc = "aggregate"
    /\ ri < Len(results)
    /\ IndexErrorAt109(Current)
    /\ pc' = "raised"
    /\ exc' = "IndexError"
    /\ UNCHANGED <<numbers, chunk_size, ci, chunks, status, posts, outcome,
                   future, completion, results, ri, aggregated>>

\* lines 110-112
AggregateAccepted ==
    /\ pc = "aggregate"
    /\ ri < Len(results)
    /\ ~IndexErrorAt109(Current)
    /\ IsAccepted(Current)
    /\ aggregated' =
           [aggregated EXCEPT
               !.total_success = @ + Len(Current.chunk),
               !.job_ids = IF "job_id" \in DOMAIN Current.response
                           THEN Append(@, Current.response.job_id)
                           ELSE @]
    /\ ri' = ri + 1
    /\ UNCHANGED <<numbers, pc, chunk_size, ci, chunks, status, posts,
                   outcome, future, completion, results, exc>>

\* lines 114-116 for a result without the key "response": total_failed is
\* raised, then result["response"] raises KeyError
AggregateKeyError ==
    /\ pc = "aggregate"
    /\ ri < Len(results)
    /\ ~Current.success
    /\ "response" \notin DOMAIN Current
    /\ aggregated' = [aggregated EXCEPT
                         !.total_failed = @ + Len(Current.chunk)]
    /\ pc' = "raised"
    /\ exc' = "KeyError"
    /\ UNCHANGED <<numbers, chunk_size, ci, chunks, status, posts, outcome,
                   future, completion, results, ri>>

\* lines 114-121 for a result that has the key "response"
AggregateRejected ==
    /\ pc = "aggregate"
    /\ ri < Len(results)
    /\ "response" \in DOMAIN Current
    /\ ~IndexErrorAt109(Current)
    /\ ~IsAccepted(Current)
    /\ aggregated' =
           [aggregated EXCEPT
               !.total_failed = @ + Len(Current.chunk),
               !.errors = ExtendErrors(@, ErrorMsg(Current), Current.chunk)]
    /\ ri' = ri + 1
    /\ UNCHANGED <<numbers, pc, chunk_size, ci, chunks, status, posts,
                   outcome, future, completion, results, exc>>

\* lines 123-124: the loop is over, success is set, the aggregate returned
Return ==
    /\ pc = "aggregate"
    /\ ri = Len(results)
    /\ aggregated' = [aggregated EXCEPT !.success = (aggregated.total_failed = 0)]
    /\ pc' = "done"
    /\ UNCHANGED <<numbers, chunk_size, ci, chunks, status, posts, outcome,
                   future, completion, results, ri, exc>>

-----------------------------------------------------------------------------

InitVars ==
    /\ pc = "start"
    /\ chunk_size = 0
    /\ ci = 0
    /\ chunks = <<>>
    /\ status = <<>>
    /\ posts = <<>>
    /\ outcome = <<>>
    /\ future = <<>>
    /\ completion = <<>>
    /\ results = <<>>
    /\ ri = 0
    /\ aggregated = NoDict
    /\ exc = ""

InitChunk ==
    /\ numbers \in {PhoneBook(n, p) : n \in 0..MaxN, p \in 0..MaxPeriod}
    /\ InitVars

NextChunk ==
    \/ ChooseChunkSize
    \/ ChunkRaise
    \/ ChunkStep
    \/ ChunkDone

SpecChunk == InitChunk /\ [][NextChunk]_vars

Init ==
    /\ numbers \in {PhoneBook(n, 0) : n \in 0..MaxLen}
    /\ InitVars

Next ==
    \/ ChooseChunkSize
    \/ ChunkRaise
    \/ ChunkStep
    \/ ChunkDone
    \/ Submit
    \/ \E k \in DOMAIN status : StartPost(k)
    \/ \E k \in DOMAIN status : \E o \in Outcomes(k, chunks[k]) : CompletePost(k, o)
    \/ CollectResult
    \/ ExitExecutor
    \/ AggregateIndexError
    \/ AggregateAccepted
    \/ AggregateKeyError
    \/ AggregateRejected
    \/ Return

Spec == Init /\ [][Next]_vars

-----------------------------------------------------------------------------
(* Chunking: what the claims speak of. *)

RECURSIVE Flatten(_)
Flatten(ss) == IF ss = <<>> THEN <<>> ELSE Head(ss) \o Flatten(Tail(ss))

Sizes(ss) == [k \in 1..Len(ss) |-> Len(ss[k])]

RECURSIVE SumSeq(_)
SumSeq(s) == IF s = <<>> THEN 0 ELSE Head(s) + SumSeq(Tail(s))

\* ceil(a / b) by its defining property, for a >= 0 and b >= 1
CeilDiv(a, b) == CHOOSE q \in 0..a : q * b >= a /\ (q = 0 \/ (q - 1) * b < a)

Chunked == pc = "submit"

\* C4: for n >= 1 the chunks partition the recipient list: concatenated in
\* chunk order they give back the list (order kept, nothing dropped or
\* duplicated), and their sizes sum to n.
C4_Partition ==
    (Chunked /\ Len(numbers) >= 1) =>
        /\ Flatten(chunks) = numbers
        /\ SumSeq(Sizes(chunks)) = Len(numbers)

\* a list of 23 recipients with repeated numbers has been cut into 5 chunks
C4_Witness ==
    /\ Chunked
    /\ Len(numbers) = 23
    /\ Len(chunks) = 5
    /\ \E i, j \in 1..Len(numbers) : i # j /\ numbers[i] = numbers[j]

\* the chunk size the batch-size policy states
PolicySize(n) ==
    IF n <= 5 THEN n
    ELSE IF n <= 100 THEN CeilDiv(n, 5)
    ELSE 100

\* C5: for n >= 1 the chunk size is n (n <= 5), ceil(n/5) (5 < n <= 100) or
\* 100 (n > 100, giving ceil(n/100) chunks); every chunk but the last has
\* exactly that size and the last holds the remainder; n = 7, 23, 250 give
\* [2,2,2,1], [5,5,5,5,3], [100,100,50].
C5_BatchSizePolicy ==
    (Chunked /\ Len(numbers) >= 1) =>
        LET n == Len(numbers)
            m == Len(chunks)
        IN  /\ chunk_size = PolicySize(n)
            /\ m = CeilDiv(n, PolicySize(n))
            /\ n <= 5 => m = 1
            /\ n > 100 => m = CeilDiv(n, 100)
            /\ \A k \in 1..(m - 1) : Len(chunks[k]) = PolicySize(n)
            /\ Len(chunks[m]) = n - (m - 1) * PolicySize(n)
            /\ Len(chunks[m]) >= 1
            /\ n = 7 => Sizes(chunks) = <<2, 2, 2, 1>>
            /\ n = 23 => Sizes(chunks) = <<5, 5, 5, 5, 3>>
            /\ n = 250 => Sizes(chunks) = <<100, 100, 50>>

\* 250 recipients have been cut into chunks of 100, 100 and 50
C5_Witness ==
    /\ Chunked
    /\ Len(numbers) = 250
    /\ Sizes(chunks) = <<100, 100, 50>>

\* C6 as claimed: for 5 < n <= 100 there are at most 5 chunks, any two chunk
\* sizes differ by at most one, and the larger chunks come first.
C6_RoughlyEqual ==
    (Chunked /\ Len(numbers) > 5 /\ Len(numbers) <= 100) =>
        /\ Len(chunks) <= 5
        /\ \A j, k \in 1..Len(chunks) :
               /\ Len(chunks[j]) - Len(chunks[k]) <= 1
               /\ j < k => Len(chunks[j]) >= Len(chunks[k])

\* C6 as amended: for 5 < n <= 100 there are at most 5 chunks; all chunks
\* but the last have one and the same size, and the last one is not empty
\* and not larger than the others (so sizes never increase), but it may be
\* smaller by more than one.
C6_EqualButLast ==
    (Chunked /\ Len(numbers) > 5 /\ Len(numbers) <= 100) =>
        LET m == Len(chunks)
        IN  /\ m >= 2
            /\ m <= 5
            /\ \A j, k \in 1..(m - 1) : Len(chunks[j]) = Len(chunks[k])
            /\ Len(chunks[m]) >= 1
            /\ Len(chunks[m]) <= Len(chunks[1])

\* 21 recipients have been cut into chunks of 5, 5, 5, 5 and 1
C6_Witness ==
    /\ Chunked
    /\ Len(numbers) = 21
    /\ Sizes(chunks) = <<5, 5, 5, 5, 1>>

-----------------------------------------------------------------------------
(* send_sms as a whole: what the claims speak of. *)

\* send_sms has ended: it returned the aggregate, or it raised
Ended == pc \in {"done", "raised"}

Returned == pc = "done"

Tasks == DOMAIN status

IsResponse(k) == "kind" \in DOMAIN outcome[k] /\ outcome[k].kind = "response"

\* the POST of chunk k raised a transport error
TransportFailed(k) == "kind" \in DOMAIN outcome[k] /\ outcome[k].kind = "raise"

\* the POST of chunk k returned a status other than 200
Non200(k) == IsResponse(k) /\ outcome[k].status # 200

Is200(k) == IsResponse(k) /\ outcome[k].status = 200

\* the first entry of the messages array of the 200 body carries err_text
CarriesErrText(k) ==
    /\ Is200(k)
    /\ "messages" \in DOMAIN outcome[k].body
    /\ Len(outcome[k].body.messages) >= 1
    /\ "err_text" \in DOMAIN outcome[k].body.messages[1]

ErrTextOf(k) == outcome[k].body.messages[1].err_text

\* a 200 batch that is to be counted as accepted
AcceptedBatch(k) == Is200(k) /\ ~CarriesErrText(k)

\* the reason a failed batch is to be listed under
ClaimedReason(k) ==
    IF TransportFailed(k) THEN outcome[k].desc
    ELSE IF "message" \in DOMAIN outcome[k].body THEN outcome[k].body.message
    ELSE IF outcome[k].status = 500 THEN "HTTP Error: 500"
    ELSE "HTTP Error"

\* the chunks with index in 1..m and in S, concatenated in index order
RECURSIVE ChunksIn(_, _)
ChunksIn(m, S) ==
    IF m = 0 THEN <<>>
    ELSE ChunksIn(m - 1, S) \o (IF m \in S THEN chunks[m] ELSE <<>>)

AcceptedSet == {k \in Tasks : AcceptedBatch(k)}

ErrTextSet == {k \in Tasks : CarriesErrText(k)}

SizeOf(S) == Len(ChunksIn(Len(chunks), S))

\* C1: a transport error or a non-200 status of some batch never makes
\* send_sms raise: it returns an aggregate that lists the failed batch's
\* numbers under errors[reason] and counts the accepted batches' numbers in
\* total_success.
C1_NoRaiseOnBatchFailure ==
    (Ended /\ \E k \in Tasks : TransportFailed(k) \/ Non200(k)) =>
        /\ Returned
        /\ \A k \in Tasks :
               (TransportFailed(k) \/ Non200(k)) =>
                   /\ ClaimedReason(k) \in DOMAIN aggregated.errors
                   /\ \A x \in 1..Len(chunks[k]) :
                          \E y \in 1..Len(aggregated.errors[ClaimedReason(k)]) :
                              aggregated.errors[ClaimedReason(k)][y] = chunks[k][x]
        /\ aggregated.total_success = SizeOf(AcceptedSet)

\* C2: after a call over a non-empty recipient list of length n, whatever
\* the batches' outcomes, total_success + total_failed = n (the empty list
\* is the case of C3).
C2_EveryRecipientCounted ==
    (Ended /\ Len(numbers) >= 1) =>
        /\ Returned
        /\ aggregated.total_success + aggregated.total_failed = Len(numbers)

\* C3: with an empty recipient list send_sms creates no batch, issues no
\* POST and returns success = true, total_success = 0, total_failed = 0.
C3_EmptyList ==
    (Ended /\ Len(numbers) = 0) =>
        /\ Returned
        /\ chunks = <<>>
        /\ \A k \in DOMAIN posts : posts[k] = 0
        /\ aggregated.success = TRUE
        /\ aggregated.total_success = 0
        /\ aggregated.total_failed = 0

\* C7: a batch answered with status 200 is counted as a whole: with
\* err_text in the first messages entry all its numbers go to total_failed
\* and to errors[err_text]; otherwise all its numbers go to total_success
\* and its job_id, when present, to job_ids.
C7_WholeBatch ==
    (Ended /\ \E k \in Tasks : Is200(k)) =>
        /\ Returned
        /\ aggregated.total_success = SizeOf(AcceptedSet)
        /\ aggregated.total_failed >= SizeOf(ErrTextSet)
        /\ \A k \in Tasks :
               CarriesErrText(k) =>
                   /\ ErrTextOf(k) \in DOMAIN aggregated.errors
                   /\ \A x \in 1..Len(chunks[k]) :
                          \E y \in 1..Len(aggregated.errors[ErrTextOf(k)]) :
                              aggregated.errors[ErrTextOf(k)][y] = chunks[k][x]
        /\ \A k \in Tasks :
               (AcceptedBatch(k) /\ "job_id" \in DOMAIN outcome[k].body) =>
                   \E y \in 1..Len(aggregated.job_ids) :
                       aggregated.job_ids[y] = outcome[k].body.job_id

\* the key the returned aggregate lists a rejected 200 batch under
GroupKey(k) == IF ErrTextOf(k) # "" THEN ErrTextOf(k) ELSE "Unknown error"

\* the job ids of the accepted batches with index in 1..m, in index order
RECURSIVE JobIdsUpTo(_)
JobIdsUpTo(m) ==
    IF m = 0 THEN <<>>
    ELSE JobIdsUpTo(m - 1) \o
            (IF AcceptedBatch(m) /\ "job_id" \in DOMAIN outcome[m].body
             THEN <<outcome[m].body.job_id>> ELSE <<>>)

\* C8: the returned aggregate depends on the batches' outcomes only, not on
\* the order in which the batch calls complete: job_ids and every
\* errors[reason] list follow batch submission order.
C8_SubmissionOrder ==
    Returned =>
        /\ aggregated.job_ids = JobIdsUpTo(Len(chunks))
        /\ DOMAIN aggregated.errors =
               {GroupKey(k) : k \in ErrTextSet}
        /\ \A r \in DOMAIN aggregated.errors :
               aggregated.errors[r] =
                   ChunksIn(Len(chunks), {k \in ErrTextSet : GroupKey(k) = r})
        /\ aggregated.total_success = SizeOf(AcceptedSet)
        /\ aggregated.total_failed = SizeOf(ErrTextSet)

\* three batches completed in the reverse of their submission order; the
\* first and the last are rejected for one reason, the second is accepted
C8_Witness ==
    /\ Returned
    /\ completion = <<3, 2, 1>>
    /\ aggregated.job_ids = <<2>>
    /\ "invalid number" \in DOMAIN aggregated.errors
    /\ aggregated.errors["invalid number"] = chunks[1] \o chunks[3]

\* C9: the aggregate is written, and send_sms returns, only after all batch
\* calls have completed and their results have been taken.
C9_JoinBarrier ==
    (aggregated # NoDict \/ pc \in {"aggregate", "done"}) =>
        /\ \A k \in Tasks : status[k] = "done"
        /\ Len(results) = Len(chunks)
        /\ Len(completion) = Len(chunks)

\* three batch calls have all completed and their results have been taken;
\* only now the aggregation loop has consumed the first result
C9_Witness ==
    /\ pc = "aggregate"
    /\ ri = 1
    /\ Len(chunks) = 3
    /\ completion = <<1, 2, 3>>
    /\ aggregated.total_success = Len(chunks[1])

\* C10: every batch is POSTed exactly once whatever the other batches'
\* outcomes: no batch is POSTed twice, a finished or running batch call has
\* POSTed once, and when the aggregation starts every batch has been POSTed.
C10_PostedOnce ==
    /\ \A k \in Tasks : posts[k] <= 1
    /\ \A k \in Tasks : status[k] \in {"inflight", "done"} => posts[k] = 1
    /\ \A k \in Tasks : status[k] \in {"new", "queued"} => posts[k] = 0
    /\ (pc \in {"aggregate", "done"} \/ (pc = "raised" /\ chunks # <<>>)) =>
           /\ Tasks = 1..Len(chunks)
           /\ \A k \in Tasks : posts[k] = 1

\* the batch that completed first failed in transport, a later one was
\* rejected, another accepted; all three were POSTed once
C10_Witness ==
    /\ pc = "aggregate"
    /\ Len(chunks) = 3
    /\ TransportFailed(completion[1])
    /\ CarriesErrText(completion[2])
    /\ AcceptedBatch(completion[3])
    /\ \A k \in Tasks : posts[k] = 1

=============================================================================
